---------------------------- MODULE Spec2Model ----------------------------
(***************************************************************************)
(* Model of the Tiny NN Diagram Generator (src/main.py, src/models.py).    *)
(*                                                                         *)
(* The POST /generate-diagram handler generate_svg validates the request   *)
(* body with NeuralNetInput and calls draw_dynamic_neural_net, which       *)
(* creates a pyplot figure, adds circles, labels and lines to its axes,    *)
(* sets the visible limits, saves the SVG and closes the figure.           *)
(*                                                                         *)
(* Lengths are fixed-point numbers in units of 1/Unit, so that the float   *)
(* literals 1.5, 0.3, 0.8 and the halvings of the code are exact integers. *)
(* Layer and node indexes are 0-based as in the code; sequences are TLA+   *)
(* sequences, so the Python list element s[i] is At(s, i).                 *)
(***************************************************************************)
EXTENDS Integers, Sequences, FiniteSets, TLC

VARIABLES
    request,         \* the request body the handler works on
    pc,              \* "idle", "received", "returned", "raised", "rejected"
    engine_call,     \* <<>> or <<args>>: the arguments draw_dynamic_neural_net was invoked with
    patches,         \* ax.patches: the circles added, in drawing order
    texts,           \* ax.texts: the labels added, in drawing order
    lines,           \* ax.lines: the line segments plotted, in drawing order
    node_positions,  \* dict node id -> (x, y)
    bias_nodes,      \* dict bias layer index -> (x, y)
    xlim,            \* <<>> or <<lower, upper>>
    ylim,            \* <<>> or <<lower, upper>>
    figs,            \* pyplot's open figures, oldest first; the last one is the current figure
    files,           \* SVG documents written under /tmp
    response,        \* <<>> or the handler's answer
    served           \* number of requests handled so far

vars == <<request, pc, engine_call, patches, texts, lines, node_positions,
          bias_nodes, xlim, ylim, figs, files, response, served>>

---------------------------------------------------------------------------
(* Bounds of the model *)

MaxLayers == 3
MaxNodes == 2
MaxColors == 2
MaxServerLayers == 2
MaxRequests == 3

---------------------------------------------------------------------------
(* Layout constants, src/main.py:50-53 and :97, in units of 1/Unit *)

Unit == 20
x_spacing == 3 * Unit
y_spacing == (3 * Unit) \div 2
node_radius == (3 * Unit) \div 10
bias_y_offset == (8 * Unit) \div 10
fallback_color == "blue"
DefaultColors == <<"red", "blue", "green", "purple">>
DefaultBiasColor == "gray"

---------------------------------------------------------------------------
(* Python helpers *)

At(s, i) == s[i + 1]

Range(n) == 0 .. (n - 1)

RangeFrom(a, b) == a .. (b - 1)

PyMax(s) == CHOOSE m \in {s[k] : k \in DOMAIN s} : \A k \in DOMAIN s : s[k] <= m

RECURSIVE SeqConcat(_)
SeqConcat(ss) == IF ss = <<>> THEN <<>> ELSE Head(ss) \o SeqConcat(Tail(ss))

\* the elements of a finite set of integers as an increasing sequence
RECURSIVE Ascending(_)
Ascending(S) ==
    IF S = {} THEN <<>>
    ELSE LET m == CHOOSE a \in S : \A b \in S : a <= b
         IN  <<m>> \o Ascending(S \ {m})

EmptyDict == [id \in {} |-> <<0, 0>>]

---------------------------------------------------------------------------
(* Request schemas *)

\* models.py DiagramInput's validator (the handler does not use this schema)
validate_colors_match_layers(body) ==
    Len(body.layer_sizes) = Len(body.colors)

\* variant: the handler's schema also runs the strict validator of models.py
NeuralNetInput_strict(body) ==
    /\ \A k \in DOMAIN body.layer_sizes : body.layer_sizes[k] \in Int
    /\ validate_colors_match_layers(body)

\* main.py NeuralNetInput: layer_sizes is a list of int, nothing more is checked
NeuralNetInput(body) ==
    \A k \in DOMAIN body.layer_sizes : body.layer_sizes[k] \in Int

---------------------------------------------------------------------------
(* draw_dynamic_neural_net *)

x_positions(layer_sizes) ==
    [k \in 1 .. Len(layer_sizes) |-> (k - 1) * x_spacing]

\* variant: the last-layer test comes first
get_prefix_last_first(layer_idx, num_layers) ==
    IF layer_idx = num_layers - 1 THEN "o"
    ELSE IF layer_idx = 0 THEN "x"
    ELSE "h"

get_prefix(layer_idx, num_layers) ==
    IF layer_idx = 0 THEN "x"
    ELSE IF layer_idx = num_layers - 1 THEN "o"
    ELSE "h"

\* variant: centred on num_nodes instead of num_nodes - 1
y_position_off_centre(i, num_nodes) ==
    0 - (i * y_spacing - (num_nodes * y_spacing) \div 2)

\* y_positions[i] of draw_layer
y_position(i, num_nodes) ==
    0 - (i * y_spacing - ((num_nodes - 1) * y_spacing) \div 2)

\* variant: range(num_nodes + 1)
layer_node_range_one_more(num_nodes) == Range(num_nodes + 1)

\* the node indexes draw_layer enumerates
layer_node_range(num_nodes) == Range(num_nodes)

layer_color(layer_idx, colors) ==
    IF layer_idx < Len(colors) THEN At(colors, layer_idx) ELSE fallback_color

\* the circles draw_layer adds for one layer
layer_patches(layer_idx, num_nodes, color, layer_sizes) ==
    LET idx == Ascending(layer_node_range(num_nodes))
    IN  [k \in DOMAIN idx |->
            [node   |-> <<"L", layer_idx, idx[k]>>,
             x      |-> At(x_positions(layer_sizes), layer_idx),
             y      |-> y_position(idx[k], num_nodes),
             radius |-> node_radius,
             color  |-> color]]

\* the labels draw_layer adds for one layer
layer_texts(layer_idx, num_nodes, layer_sizes) ==
    LET idx == Ascending(layer_node_range(num_nodes))
    IN  [k \in DOMAIN idx |->
            [node |-> <<"L", layer_idx, idx[k]>>,
             x    |-> At(x_positions(layer_sizes), layer_idx),
             y    |-> y_position(idx[k], num_nodes),
             text |-> <<get_prefix(layer_idx, Len(layer_sizes)), idx[k] + 1>>]]

\* node_positions after the "draw all layers" loop
layer_positions(layer_sizes) ==
    LET ids == UNION {{<<l, i>> : i \in layer_node_range(At(layer_sizes, l))} :
                        l \in Range(Len(layer_sizes))}
    IN  [id \in ids |->
            <<At(x_positions(layer_sizes), id[1]),
              y_position(id[2], At(layer_sizes, id[1]))>>]

\* variant: the height of the first layer instead of the tallest
max_y_of_first_layer(layer_sizes) == (At(layer_sizes, 0) * y_spacing) \div 2

max_y_of(layer_sizes) == (PyMax(layer_sizes) * y_spacing) \div 2

\* the layer indexes that get a bias node
bias_range(num_layers) == RangeFrom(1, num_layers)

bias_x(l, layer_sizes) ==
    (At(x_positions(layer_sizes), l - 1) + At(x_positions(layer_sizes), l)) \div 2

bias_y(layer_sizes) == max_y_of(layer_sizes) + bias_y_offset

bias_positions(layer_sizes) ==
    [l \in bias_range(Len(layer_sizes)) |->
        <<bias_x(l, layer_sizes), bias_y(layer_sizes)>>]

bias_patches(layer_sizes, bias_color) ==
    LET idx == Ascending(bias_range(Len(layer_sizes)))
    IN  [k \in DOMAIN idx |->
            [node   |-> <<"b", idx[k]>>,
             x      |-> bias_x(idx[k], layer_sizes),
             y      |-> bias_y(layer_sizes),
             radius |-> node_radius,
             color  |-> bias_color]]

bias_texts(layer_sizes) ==
    LET idx == Ascending(bias_range(Len(layer_sizes)))
    IN  [k \in DOMAIN idx |->
            [node |-> <<"b", idx[k]>>,
             x    |-> bias_x(idx[k], layer_sizes),
             y    |-> bias_y(layer_sizes),
             text |-> <<"b", idx[k]>>]]

\* variant: the inner loop starts at 1
solid_pairs_skip_first(l, layer_sizes) ==
    SeqConcat([a \in DOMAIN Ascending(Range(At(layer_sizes, l))) |->
        [b \in DOMAIN Ascending(RangeFrom(1, At(layer_sizes, l + 1))) |-> <<a - 1, b>>]])

\* the (i, j) pairs of the nested loops over layers l and l+1, in loop order
solid_pairs(l, layer_sizes) ==
    SeqConcat([a \in DOMAIN Ascending(Range(At(layer_sizes, l))) |->
        [b \in DOMAIN Ascending(Range(At(layer_sizes, l + 1))) |-> <<a - 1, b - 1>>]])

solid_lines(l, layer_sizes, pos) ==
    LET ps == solid_pairs(l, layer_sizes)
    IN  [k \in DOMAIN ps |->
            [from  |-> <<"L", l, ps[k][1]>>,
             to    |-> <<"L", l + 1, ps[k][2]>>,
             src   |-> pos[<<l, ps[k][1]>>],
             dst   |-> pos[<<l + 1, ps[k][2]>>],
             style |-> "solid"]]

dashed_lines(l, layer_sizes, pos, bias) ==
    LET js == Ascending(Range(At(layer_sizes, l + 1)))
    IN  [k \in DOMAIN js |->
            [from  |-> <<"b", l + 1>>,
             to    |-> <<"L", l + 1, js[k]>>,
             src   |-> bias[l + 1],
             dst   |-> pos[<<l + 1, js[k]>>],
             style |-> "dashed"]]

\* all lines of the "draw connections" loop
connection_lines(layer_sizes, pos, bias) ==
    LET ls == Ascending(Range(Len(layer_sizes) - 1))
    IN  SeqConcat([k \in DOMAIN ls |->
            solid_lines(ls[k], layer_sizes, pos)
            \o dashed_lines(ls[k], layer_sizes, pos, bias)])

x_limits(layer_sizes) ==
    <<0 - Unit, At(x_positions(layer_sizes), Len(layer_sizes) - 1) + 2 * Unit>>

\* variant: upper margin 1 instead of 2
y_limits_tight(layer_sizes) ==
    <<0 - max_y_of(layer_sizes) - (3 * Unit) \div 2, max_y_of(layer_sizes) + Unit>>

y_limits(layer_sizes) ==
    <<0 - max_y_of(layer_sizes) - (3 * Unit) \div 2, max_y_of(layer_sizes) + 2 * Unit>>

\* plt.subplots: a new figure, numbered after the highest open one, becomes current
plt_subplots(open) ==
    Append(open, IF open = <<>> THEN 1 ELSE PyMax(open) + 1)

\* plt.close(): closes the current figure
plt_close(open) ==
    IF open = <<>> THEN open ELSE SubSeq(open, 1, Len(open) - 1)

\* The whole call: what is on the axes when it ends, and whether it raised.
\* max() of an empty list raises ValueError (main.py:94), after the layers were drawn.
draw_dynamic_neural_net(layer_sizes, colors, bias_color) ==
    LET L      == Len(layer_sizes)
        lp     == SeqConcat([k \in 1 .. L |->
                     layer_patches(k - 1, layer_sizes[k], layer_color(k - 1, colors), layer_sizes)])
        lt     == SeqConcat([k \in 1 .. L |->
                     layer_texts(k - 1, layer_sizes[k], layer_sizes)])
        pos    == layer_positions(layer_sizes)
    IN  IF layer_sizes = <<>>
        THEN [raised |-> TRUE, patches |-> lp, texts |-> lt, lines |-> <<>>,
              node_positions |-> pos, bias_nodes |-> EmptyDict,
              xlim |-> <<>>, ylim |-> <<>>]
        ELSE [raised |-> FALSE,
              patches |-> lp \o bias_patches(layer_sizes, bias_color),
              texts |-> lt \o bias_texts(layer_sizes),
              lines |-> connection_lines(layer_sizes, pos, bias_positions(layer_sizes)),
              node_positions |-> pos,
              bias_nodes |-> bias_positions(layer_sizes),
              xlim |-> x_limits(layer_sizes),
              ylim |-> y_limits(layer_sizes)]

---------------------------------------------------------------------------
(* The requests of the model *)

SeqsUpTo(S, n) == UNION {[1 .. k -> S] : k \in 0 .. n}

LayerSizeValues == (0 - 1) .. MaxNodes

ColorValues == {"red", "blue"}

BiasColorValues == {"gray", "red"}

Requests ==
    [layer_sizes : SeqsUpTo(LayerSizeValues, MaxLayers),
     colors      : SeqsUpTo(ColorValues, MaxColors),
     bias_color  : BiasColorValues]

\* requests that leave colors and bias_color to the schema's defaults
ServerRequests ==
    [layer_sizes : SeqsUpTo(LayerSizeValues, MaxServerLayers),
     colors      : {DefaultColors},
     bias_color  : {DefaultBiasColor}]

NoRequest == [layer_sizes |-> <<>>, colors |-> <<>>, bias_color |-> ""]

---------------------------------------------------------------------------
(* Actions *)

EmptyAxes ==
    /\ engine_call = <<>>
    /\ patches = <<>>
    /\ texts = <<>>
    /\ lines = <<>>
    /\ node_positions = EmptyDict
    /\ bias_nodes = EmptyDict
    /\ xlim = <<>>
    /\ ylim = <<>>
    /\ response = <<>>

\* one request, already decoded, waits for its handler
Init ==
    /\ request \in Requests
    /\ pc = "received"
    /\ EmptyAxes
    /\ figs = <<>>
    /\ files = {}
    /\ served = 0

InitServer ==
    /\ request = NoRequest
    /\ pc = "idle"
    /\ EmptyAxes
    /\ figs = <<>>
    /\ files = {}
    /\ served = 0

\* a client posts a request; the previous call's axes are gone
Post ==
    /\ pc # "received"
    /\ served < MaxRequests
    /\ request' \in ServerRequests
    /\ pc' = "received"
    /\ engine_call' = <<>>
    /\ patches' = <<>>
    /\ texts' = <<>>
    /\ lines' = <<>>
    /\ node_positions' = EmptyDict
    /\ bias_nodes' = EmptyDict
    /\ xlim' = <<>>
    /\ ylim' = <<>>
    /\ response' = <<>>
    /\ UNCHANGED <<figs, files, served>>

\* POST /generate-diagram, main.py:132-149
generate_svg ==
    /\ pc = "received"
    /\ served' = served + 1
    /\ UNCHANGED request
    /\ IF ~NeuralNetInput(request)
       THEN /\ pc' = "rejected"
            /\ response' = <<422>>
            /\ UNCHANGED <<engine_call, patches, texts, lines, node_positions,
                           bias_nodes, xlim, ylim, figs, files>>
       ELSE LET d == draw_dynamic_neural_net(request.layer_sizes, request.colors,
                                             request.bias_color)
            IN  /\ engine_call' = <<request>>
                /\ patches' = d.patches
                /\ texts' = d.texts
                /\ lines' = d.lines
                /\ node_positions' = d.node_positions
                /\ bias_nodes' = d.bias_nodes
                /\ xlim' = d.xlim
                /\ ylim' = d.ylim
                /\ IF d.raised
                   THEN /\ pc' = "raised"
                        /\ figs' = plt_subplots(figs)
                        /\ files' = files
                        /\ response' = <<500>>
                   ELSE /\ pc' = "returned"
                        /\ figs' = plt_close(plt_subplots(figs))
                        /\ files' = files \cup {served + 1}
                        /\ response' = <<200, served + 1>>

Next == generate_svg

NextServer == Post \/ generate_svg

Spec == Init /\ [][Next]_vars

SpecServer == InitServer /\ [][NextServer]_vars


---------------------------------------------------------------------------
(* Vocabulary of the properties *)

sizes == request.layer_sizes

RECURSIVE SeqSum(_)
SeqSum(s) == IF s = <<>> THEN 0 ELSE Head(s) + SeqSum(Tail(s))

NonNegative(s) == \A k \in DOMAIN s : s[k] >= 0

Returned == pc = "returned"

IsLayerNode(n) == n[1] = "L"

IsBiasNode(n) == n[1] = "b"

\* the positions in a sequence of drawn things whose node satisfies P
Drawn(seq, P(_)) == {k \in DOMAIN seq : P(seq[k].node)}

LayerIndexes == Range(Len(sizes))

NodeIndexes(l) == Range(At(sizes, l))

---------------------------------------------------------------------------
(* C1: for a non-empty list of non-negative layer sizes the call draws      *)
(* exactly n_l regular nodes in layer l, each identity (l, i) once, and     *)
(* exactly one bias node for each layer 1..k and none for layer 0.          *)
C1_NodeAndBiasCounts ==
    (Returned /\ NonNegative(sizes)) =>
        /\ \A l \in LayerIndexes :
              /\ Cardinality(Drawn(patches, LAMBDA n : IsLayerNode(n) /\ n[2] = l))
                    = At(sizes, l)
              /\ \A i \in NodeIndexes(l) :
                    Cardinality(Drawn(patches, LAMBDA n : n = <<"L", l, i>>)) = 1
        /\ Cardinality(Drawn(patches, IsLayerNode)) = SeqSum(sizes)
        /\ Cardinality(DOMAIN node_positions) = SeqSum(sizes)
        /\ DOMAIN node_positions =
              UNION {{<<l, i>> : i \in NodeIndexes(l)} : l \in LayerIndexes}
        /\ Cardinality(Drawn(patches, IsBiasNode)) = Len(sizes) - 1
        /\ \A l \in 1 .. (Len(sizes) - 1) :
              Cardinality(Drawn(patches, LAMBDA n : n = <<"b", l>>)) = 1
        /\ Drawn(patches, LAMBDA n : n = <<"b", 0>>) = {}
        /\ DOMAIN bias_nodes = 1 .. (Len(sizes) - 1)
        /\ Len(patches) = SeqSum(sizes) + Len(sizes) - 1

C1_Witness ==
    /\ Returned
    /\ sizes = <<2, 0, 1>>
    /\ Len(patches) = 5

---------------------------------------------------------------------------
(* C2: between consecutive layers i and i+1 there is exactly one solid edge *)
(* for each pair of nodes and exactly one dashed edge from bias node b(i+1) *)
(* to each node of layer i+1, and there are no other edges.                 *)
SolidBetween(l) ==
    {k \in DOMAIN lines : /\ lines[k].style = "solid"
                          /\ lines[k].from[1] = "L" /\ lines[k].from[2] = l
                          /\ lines[k].to[1] = "L" /\ lines[k].to[2] = l + 1}

DashedInto(l) ==
    {k \in DOMAIN lines : /\ lines[k].style = "dashed"
                          /\ lines[k].from = <<"b", l>>
                          /\ lines[k].to[1] = "L" /\ lines[k].to[2] = l}

Boundaries == Range(Len(sizes) - 1)

C2_EdgeSets ==
    (Returned /\ NonNegative(sizes)) =>
        /\ \A l \in Boundaries :
              /\ Cardinality(SolidBetween(l)) = At(sizes, l) * At(sizes, l + 1)
              /\ \A i \in NodeIndexes(l) : \A j \in NodeIndexes(l + 1) :
                    Cardinality({k \in SolidBetween(l) :
                        /\ lines[k].from = <<"L", l, i>>
                        /\ lines[k].to = <<"L", l + 1, j>>
                        /\ lines[k].src = node_positions[<<l, i>>]
                        /\ lines[k].dst = node_positions[<<l + 1, j>>]}) = 1
              /\ Cardinality(DashedInto(l + 1)) = At(sizes, l + 1)
              /\ \A j \in NodeIndexes(l + 1) :
                    Cardinality({k \in DashedInto(l + 1) :
                        /\ lines[k].to = <<"L", l + 1, j>>
                        /\ lines[k].src = bias_nodes[l + 1]
                        /\ lines[k].dst = node_positions[<<l + 1, j>>]}) = 1
        /\ DOMAIN lines =
              UNION {SolidBetween(l) \cup DashedInto(l + 1) : l \in Boundaries}
        /\ \A k \in DOMAIN lines :
              /\ At(sizes, lines[k].to[2]) > 0
              /\ lines[k].from[1] = "L" => At(sizes, lines[k].from[2]) > 0

C2_Witness ==
    /\ Returned
    /\ sizes = <<2, 2, 0>>
    /\ Len(lines) = 6

---------------------------------------------------------------------------
(* C3: the call with an empty layer list, no colors and bias color gray     *)
(* ends without an error, with an empty scene and an output document.       *)
C3_EmptyInputSucceeds ==
    (/\ pc \notin {"idle", "received"}
     /\ sizes = <<>> /\ request.colors = <<>> /\ request.bias_color = "gray") =>
        /\ pc = "returned"
        /\ patches = <<>> /\ lines = <<>>
        /\ response = <<200, served>>
        /\ served \in files

---------------------------------------------------------------------------
(* C4: every node of layer i is filled with colors[i] when i < len(colors)  *)
(* and with blue otherwise, every bias node with bias_color; the request is *)
(* never rejected, and the call raises exactly when the layer list is       *)
(* empty, whatever the colors are, so no length mismatch causes an error.   *)
C4_ColorFallback ==
    (pc \notin {"idle", "received"}) =>
        /\ pc # "rejected"
        /\ (pc = "raised") <=> (sizes = <<>>)
        /\ \A k \in DOMAIN patches :
              LET n == patches[k].node
              IN  /\ (IsLayerNode(n) /\ n[2] < Len(request.colors)) =>
                        patches[k].color = At(request.colors, n[2])
                  /\ (IsLayerNode(n) /\ n[2] >= Len(request.colors)) =>
                        patches[k].color = "blue"
                  /\ IsBiasNode(n) => patches[k].color = request.bias_color

\* fewer colors than layers: the spec's example layout([2,2], ["red"], "gray")
C4_Witness ==
    /\ Returned
    /\ sizes = <<2, 2>> /\ request.colors = <<"red">> /\ request.bias_color = "gray"
    /\ \E k \in DOMAIN patches : patches[k].color = "blue"

---------------------------------------------------------------------------
(* C5: the nodes of layer i all have x = i * 3, and their y-coordinates     *)
(* -(k * 1.5 - (n-1) * 1.5 / 2) sum to 0 and satisfy y_k = -y_(n-1-k).      *)
LayerYs(l) == [k \in 1 .. At(sizes, l) |-> node_positions[<<l, k - 1>>][2]]

C5_LayerGeometry ==
    (Returned /\ NonNegative(sizes)) =>
        \A l \in LayerIndexes :
            /\ \A i \in NodeIndexes(l) :
                  /\ node_positions[<<l, i>>][1] = l * 3 * Unit
                  /\ 2 * node_positions[<<l, i>>][2]
                        = 0 - (2 * i * y_spacing - (At(sizes, l) - 1) * y_spacing)
                  /\ node_positions[<<l, i>>][2]
                        = 0 - node_positions[<<l, At(sizes, l) - 1 - i>>][2]
            /\ SeqSum(LayerYs(l)) = 0
            /\ \A k \in Drawn(patches, LAMBDA n : IsLayerNode(n) /\ n[2] = l) :
                  <<patches[k].x, patches[k].y>>
                      = node_positions[<<l, patches[k].node[3]>>]

C5_Witness ==
    /\ Returned
    /\ sizes = <<1, 2>>
    /\ node_positions[<<1, 0>>][2] > 0
    /\ node_positions[<<1, 1>>][2] < 0

---------------------------------------------------------------------------
(* C6: draw_dynamic_neural_net is never invoked with a layer-size list that *)
(* contains a negative value.                                               *)
C6_NegativeNeverDrawn ==
    engine_call # <<>> => NonNegative(engine_call[1].layer_sizes)

---------------------------------------------------------------------------
(* C7: whenever no call is in progress, every figure a call created has     *)
(* been closed: no figure remains open.                                     *)
C7_NoFigureLeftOpen ==
    pc # "received" => figs = <<>>

---------------------------------------------------------------------------
(* C8 as stated: the label of node k of layer i is prefix + (k+1), with     *)
(* prefix x for the first layer, o for the last layer and h for every       *)
(* interior layer, for every list of length L >= 1.                         *)
LayerTexts(l) == Drawn(texts, LAMBDA n : IsLayerNode(n) /\ n[2] = l)

C8_Original ==
    (Returned /\ NonNegative(sizes)) =>
        \A l \in LayerIndexes : \A k \in LayerTexts(l) :
            /\ texts[k].text[2] = texts[k].node[3] + 1
            /\ l = 0 => texts[k].text[1] = "x"
            /\ l = Len(sizes) - 1 => texts[k].text[1] = "o"
            /\ (l # 0 /\ l # Len(sizes) - 1) => texts[k].text[1] = "h"

(* C8 amended: prefix x for the first layer, o for the last layer when it   *)
(* is not also the first (L >= 2), h for every interior layer; within one   *)
(* layer the labels are pairwise distinct and run 1..n_i.                   *)
C8_LabelPrefixes ==
    (Returned /\ NonNegative(sizes)) =>
        \A l \in LayerIndexes :
            /\ \A k \in LayerTexts(l) :
                  /\ texts[k].text[2] = texts[k].node[3] + 1
                  /\ l = 0 => texts[k].text[1] = "x"
                  /\ (l # 0 /\ l = Len(sizes) - 1) => texts[k].text[1] = "o"
                  /\ (l # 0 /\ l # Len(sizes) - 1) => texts[k].text[1] = "h"
            /\ {texts[k].text[2] : k \in LayerTexts(l)} = 1 .. At(sizes, l)
            /\ Cardinality(LayerTexts(l)) = At(sizes, l)

C8_Witness ==
    /\ Returned
    /\ sizes = <<1, 2, 1>>
    /\ \E k \in DOMAIN texts : texts[k].text = <<"h", 2>>
    /\ \E k \in DOMAIN texts : texts[k].text = <<"o", 1>>

---------------------------------------------------------------------------
(* C9: with L >= 2 layers every bias node b_l sits at the midpoint of the   *)
(* x-coordinates of layers l-1 and l and at the one height                  *)
(* max(layer_sizes) * 1.5 / 2 + 0.8, which exceeds the y of every regular   *)
(* node by more than two node radii.                                        *)
C9_BiasPlacement ==
    (Returned /\ NonNegative(sizes) /\ Len(sizes) >= 2) =>
        \A l \in 1 .. (Len(sizes) - 1) :
            /\ 2 * bias_nodes[l][1] = (l - 1) * 3 * Unit + l * 3 * Unit
            /\ 20 * bias_nodes[l][2] = PyMax(sizes) * 15 * Unit + 16 * Unit
            /\ \A k \in Drawn(patches, LAMBDA n : n = <<"b", l>>) :
                  <<patches[k].x, patches[k].y>> = bias_nodes[l]
            /\ \A k \in Drawn(patches, IsLayerNode) :
                  10 * (bias_nodes[l][2] - patches[k].y) > 6 * Unit

\* the tallest layer is not adjacent to bias node b2
C9_Witness ==
    /\ Returned
    /\ sizes = <<2, 1, 1>>
    /\ 2 \in DOMAIN bias_nodes
    /\ bias_nodes[2][2] = bias_nodes[1][2]

---------------------------------------------------------------------------
(* C10: for a non-empty list of non-negative sizes the visible region has   *)
(* lower bound < upper bound on both axes, is x in [-1, x_last + 2] and     *)
(* y in [-max_y - 1.5, max_y + 2], and contains every circle entirely.      *)
C10_BoundingRegion ==
    (Returned /\ NonNegative(sizes)) =>
        /\ xlim = <<0 - Unit, (Len(sizes) - 1) * 3 * Unit + 2 * Unit>>
        /\ 4 * ylim[1] = 0 - PyMax(sizes) * 3 * Unit - 6 * Unit
        /\ 4 * ylim[2] = PyMax(sizes) * 3 * Unit + 8 * Unit
        /\ xlim[1] < xlim[2]
        /\ ylim[1] < ylim[2]
        /\ \A k \in DOMAIN patches :
              /\ 10 * patches[k].radius = 3 * Unit
              /\ xlim[1] <= patches[k].x - patches[k].radius
              /\ patches[k].x + patches[k].radius <= xlim[2]
              /\ ylim[1] <= patches[k].y - patches[k].radius
              /\ patches[k].y + patches[k].radius <= ylim[2]

C10_Witness ==
    /\ Returned
    /\ sizes = <<0, 2>>
    /\ Len(patches) = 3
    /\ ylim # <<>>

===========================================================================
